---- MODULE Spec2Model ----
(***************************************************************************)
(* Attendance integrity engine of woti_attendance_v2: clock-in/clock-out   *)
(* state machine, geofence validation, spoofing checks and the offline     *)
(* batch sync, over the attendance and activities tables.                  *)
(* Also the login sessions: login, logout, the authentication middleware   *)
(* and the expiry sweep, over the user_sessions table; the rate limiter of  *)
(* the authentication routes; and the conflict resolver of syncResolver.js.*)
(*                                                                         *)
(* Units.  Latitude/longitude are integers in 1e-4 degree.  Distances and  *)
(* GPS accuracy are integers in decimetres (dm), the resolution to which   *)
(* the floating-point metres of the code are kept.  Time is in seconds.    *)
(* The located points of the model lie on the meridian 30.06 E, where the  *)
(* haversine distance is the meridian arc R * |dLat|; the spoofing checks  *)
(* are also given points on the prime meridian.  The rate limiter counts   *)
(* time in milliseconds.                                                   *)
(***************************************************************************)
EXTENDS Integers, Sequences, FiniteSets, TLC

VARIABLES attendance, activities, now, last, nops, req, geo,
          sessions, userActive, auth, store, clockMs, served, probe

\* the user_sessions table, users.is_active, and what the last login, logout
\* or authenticated request answered
sessVars == <<sessions, userActive, auth>>

\* the rate limiter's in-memory store, Date.now() in milliseconds, and the
\* requests the limiter has handled
rlVars == <<store, clockMs, served>>

vars == <<attendance, activities, now, last, nops, req, geo, sessions, userActive, auth,
          store, clockMs, served, probe>>

\* a function under study: its input before the call, its result after
NoProbe == [phase |-> "off"]

\* SQL NULL / JS undefined for text and for numeric columns
Null == "null"
NullNum == -99999999

\* ---- bounds of the model ----
MaxOps == 2
MaxBatch == 2
DistSpan == 12
MaxSkew == 1

\* ---- program constants ----
MAX_SPEED_KMH == 150
MIN_SUSPICIOUS_ACCURACY == 1
MAX_ACCEPTABLE_ACCURACY == 500
DefaultRadius == 100
MaxAgeDays == 30
SecondsPerDay == 86400
TokenTtl == 86400
\* R * pi / 180 = 111194.93 m per degree = 1112 dm per 1e-4 degree (to 4 digits)
DmPer1e4Deg == 1112
MaxLatitude == 900000
MaxLongitude == 1800000
NullIslandEps == 100

Abs(x) == IF x < 0 THEN -x ELSE x

\* Math.round on a distance held in dm, giving whole metres
MathRound(dm) == (dm + 5) \div 10

\* ---- sample world ----
Users == {"u1", "u2"}
\* users.facility_id: u1 is assigned to F1, u2 to no facility
UserFacility(u) == IF u = "u1" THEN "F1" ELSE Null

\* sample places, in 1e-4 degree: the facility F1 at -1.9536, a point 44 m from
\* it, a point 100.08 m from it, the two-decimal point -1.94 (where F2 stands,
\* 1.5 km from F1),
\* a point 0.005 degree from the equator, a latitude of 91 degrees; one
\* meridian, 30.06 E; the start of time and the length of a pause, in seconds
Place == [meridian |-> 300600, f1 |-> -19536, near |-> -19540, edge |-> -19527,
          low |-> -19400, nullIsland |-> 50, out |-> 910000,
          t0 |-> 1000, pause |-> 40]
Meridian == Place.meridian
LatF1 == Place.f1
LatNear == Place.near
LatEdge == Place.edge
LatLow == Place.low
LatNullIsland == Place.nullIsland
LatOut == Place.out

\* facilities table: F1 radius unset, F2 at a low-precision point, F3 without
\* coordinates, F4 with latitude only, F5 inactive; any other id is missing
FacilityIds == {"F1", "F2", "F3", "F4", "F5"}
Facility(f) ==
  CASE f = "F1" -> [id |-> f, is_active |-> TRUE,  latitude |-> LatF1,   longitude |-> Meridian, geofence_radius |-> NullNum]
    [] f = "F2" -> [id |-> f, is_active |-> TRUE,  latitude |-> LatLow,  longitude |-> Meridian, geofence_radius |-> 50]
    [] f = "F3" -> [id |-> f, is_active |-> TRUE,  latitude |-> NullNum, longitude |-> NullNum,  geofence_radius |-> NullNum]
    [] f = "F4" -> [id |-> f, is_active |-> TRUE,  latitude |-> LatF1,   longitude |-> NullNum,  geofence_radius |-> 100]
    [] OTHER    -> [id |-> f, is_active |-> FALSE, latitude |-> LatF1,   longitude |-> Meridian, geofence_radius |-> 100]

\* ---- geofencing.js ----
\* in decimetres; the sample world has two meridians, 0 and 30.06 E, which are
\* more than 3000 km apart at every sample latitude
haversineDistance(lat1, lon1, lat2, lon2) ==
  IF lon1 = lon2 THEN (Abs(lat2 - lat1) * DmPer1e4Deg + 5) \div 10
  ELSE 30000000

\* result of validateGeofence from the facility row and the raw distance (dm)
\* that ST_DistanceSphere / haversineDistance computed
geofenceDecision(facility, distDm, usePostgis) ==
  LET radius == IF facility.geofence_radius = NullNum THEN DefaultRadius
                ELSE facility.geofence_radius
  IN IF usePostgis
     THEN [error |-> Null, isWithinGeofence |-> MathRound(distDm) <= radius,
           distance |-> MathRound(distDm), maxRadius |-> radius, method |-> "postgis"]
     ELSE [error |-> Null, isWithinGeofence |-> distDm <= radius * 10,
           distance |-> MathRound(distDm), maxRadius |-> radius, method |-> "haversine"]

\* validateGeofence letting a facility without coordinates pass
validateGeofence_AllowUnconfigured(facilityId, userLatitude, userLongitude, usePostgis) ==
  LET f == Facility(facilityId)
      found == facilityId \in FacilityIds /\ f.is_active
      dist == haversineDistance(f.latitude, f.longitude, userLatitude, userLongitude)
  IN IF usePostgis /\ found /\ f.latitude # NullNum /\ f.longitude # NullNum
     THEN geofenceDecision(f, dist, TRUE)
     ELSE IF ~found
     THEN [error |-> "FacilityUnavailable", isWithinGeofence |-> FALSE,
           distance |-> NullNum, maxRadius |-> NullNum, method |-> Null]
     ELSE IF f.latitude = NullNum \/ f.longitude = NullNum
     THEN [error |-> Null, isWithinGeofence |-> TRUE,
           distance |-> NullNum, maxRadius |-> NullNum, method |-> Null]
     ELSE geofenceDecision(f, dist, FALSE)

validateGeofence(facilityId, userLatitude, userLongitude, usePostgis) ==
  LET f == Facility(facilityId)
      found == facilityId \in FacilityIds /\ f.is_active
      dist == haversineDistance(f.latitude, f.longitude, userLatitude, userLongitude)
  IN IF usePostgis /\ found /\ f.latitude # NullNum /\ f.longitude # NullNum
     THEN geofenceDecision(f, dist, TRUE)
     ELSE IF ~found
     THEN [error |-> "FacilityUnavailable", isWithinGeofence |-> FALSE,
           distance |-> NullNum, maxRadius |-> NullNum, method |-> Null]
     ELSE IF f.latitude = NullNum \/ f.longitude = NullNum
     THEN [error |-> "GeofenceUnconfigured", isWithinGeofence |-> FALSE,
           distance |-> NullNum, maxRadius |-> NullNum, method |-> Null]
     ELSE geofenceDecision(f, dist, FALSE)

\* ---- validators.js ----
getDecimalPlaces(num) ==
  LET a == Abs(num) % 10000
  IN IF a = 0 THEN 0
     ELSE IF a % 1000 = 0 THEN 1
     ELSE IF a % 100 = 0 THEN 2
     ELSE IF a % 10 = 0 THEN 3
     ELSE 4

validateGpsCoordinates(lat, lon) ==
  IF lat = NullNum \/ lon = NullNum THEN [isValid |-> FALSE, warning |-> FALSE]
  ELSE IF lat < -MaxLatitude \/ lat > MaxLatitude THEN [isValid |-> FALSE, warning |-> FALSE]
  ELSE IF lon < -MaxLongitude \/ lon > MaxLongitude THEN [isValid |-> FALSE, warning |-> FALSE]
  ELSE IF Abs(lat) < NullIslandEps /\ Abs(lon) < NullIslandEps THEN [isValid |-> FALSE, warning |-> FALSE]
  ELSE IF getDecimalPlaces(lat) < 3 /\ getDecimalPlaces(lon) < 3 /\ lat # 0 /\ lon # 0
       THEN [isValid |-> TRUE, warning |-> TRUE]
  ELSE [isValid |-> TRUE, warning |-> FALSE]

\* ---- attendance table helpers ----
NoRow == [id |-> 0]

Truthy(x) == x # NullNum /\ x # 0
OrNull(x) == IF Truthy(x) THEN x ELSE NullNum

RowsOf(table) == {table[i] : i \in 1..Len(table)}

\* rows a query with ORDER BY col DESC LIMIT 1 may return (ties are arbitrary)
Latest(rows) == {r \in rows : \A o \in rows : o.clock_in_time <= r.clock_in_time}

\* findActiveByUserId with the test on clock_out_time inverted
findActiveByUserId_NotNull(table, userId) ==
  Latest({r \in RowsOf(table) :
            r.user_id = userId /\ r.status = "active" /\ r.clock_out_time # NullNum})

\* attendance.repository.js findActiveByUserId
findActiveByUserId(table, userId) ==
  Latest({r \in RowsOf(table) :
            r.user_id = userId /\ r.status = "active" /\ r.clock_out_time = NullNum})

OneOf(rows) == IF rows = {} THEN {NoRow} ELSE rows

\* CHECK / NOT NULL / FOREIGN KEY constraints of the attendance table
CoordsViolate(lat, lon) ==
  \/ lat # NullNum /\ (lat < -MaxLatitude \/ lat > MaxLatitude)
  \/ lon # NullNum /\ (lon < -MaxLongitude \/ lon > MaxLongitude)

\* the attendance table without its valid_clock_times constraint
RowViolates_NoClockTimes(r) ==
  \/ r.facility_id \notin FacilityIds
  \/ r.clock_in_time = NullNum
  \/ CoordsViolate(r.clock_in_latitude, r.clock_in_longitude)
  \/ r.status \notin {"active", "completed", "cancelled"}
  \/ r.conflict_resolution_strategy \notin {"client_wins", "server_wins", "manual"}

RowViolates(r) ==
  \/ r.facility_id \notin FacilityIds
  \/ r.clock_in_time = NullNum
  \/ r.clock_out_time # NullNum /\ ~(r.clock_out_time > r.clock_in_time)
  \/ CoordsViolate(r.clock_in_latitude, r.clock_in_longitude)
  \/ r.status \notin {"active", "completed", "cancelled"}
  \/ r.conflict_resolution_strategy \notin {"client_wins", "server_wins", "manual"}

\* ---- spoofingDetection.js ----
detectImpossibleSpeed(lastLocation, currentLocation) ==
  IF ~Truthy(lastLocation.latitude) \/ ~Truthy(lastLocation.longitude)
     \/ ~Truthy(currentLocation.latitude) \/ ~Truthy(currentLocation.longitude)
  THEN FALSE
  ELSE IF currentLocation.timestamp - lastLocation.timestamp <= 0 THEN TRUE
  ELSE LET distanceDm == haversineDistance(lastLocation.latitude, lastLocation.longitude,
                                           currentLocation.latitude, currentLocation.longitude)
       IN distanceDm * 36 >
            MAX_SPEED_KMH * 100 * (currentLocation.timestamp - lastLocation.timestamp)

detectMockLocation(isMocked) == isMocked = TRUE

\* validateGpsAccuracy refusing a reading of exactly MAX_ACCEPTABLE_ACCURACY
validateGpsAccuracy_Inclusive(accuracy) ==
  IF accuracy = NullNum THEN [valid |-> TRUE, warning |-> FALSE]
  ELSE IF accuracy >= MAX_ACCEPTABLE_ACCURACY * 10 THEN [valid |-> FALSE, warning |-> FALSE]
  ELSE IF accuracy < MIN_SUSPICIOUS_ACCURACY * 10 THEN [valid |-> TRUE, warning |-> TRUE]
  ELSE [valid |-> TRUE, warning |-> FALSE]

validateGpsAccuracy(accuracy) ==
  IF accuracy = NullNum THEN [valid |-> TRUE, warning |-> FALSE]
  ELSE IF accuracy > MAX_ACCEPTABLE_ACCURACY * 10 THEN [valid |-> FALSE, warning |-> FALSE]
  ELSE IF accuracy < MIN_SUSPICIOUS_ACCURACY * 10 THEN [valid |-> TRUE, warning |-> TRUE]
  ELSE [valid |-> TRUE, warning |-> FALSE]

getLastAttendanceWithLocation(table, userId) ==
  Latest({r \in RowsOf(table) :
            r.user_id = userId /\ r.clock_in_latitude # NullNum
            /\ r.clock_in_longitude # NullNum})

\* lastAttendance is the row getLastAttendanceWithLocation returned, or NoRow;
\* logged tells whether logSuspiciousActivity appended to activities
runSpoofingChecks(locationData, lastAttendance, time) ==
  LET mock == detectMockLocation(locationData.is_mocked)
      acc == validateGpsAccuracy(locationData.accuracy)
      speed == /\ Truthy(locationData.latitude) /\ Truthy(locationData.longitude)
               /\ lastAttendance.id # 0
               /\ detectImpossibleSpeed(
                    [latitude |-> lastAttendance.clock_in_latitude,
                     longitude |-> lastAttendance.clock_in_longitude,
                     timestamp |-> lastAttendance.clock_in_time],
                    [latitude |-> locationData.latitude,
                     longitude |-> locationData.longitude,
                     timestamp |-> time])
  IN [passed |-> ~mock /\ acc.valid /\ ~speed,
      warnings |-> acc.warning,
      flags |-> (IF mock THEN {"mock_location"} ELSE {})
                \cup (IF ~acc.valid THEN {"low_accuracy"} ELSE {})
                \cup (IF acc.warning THEN {"suspicious_accuracy"} ELSE {})
                \cup (IF speed THEN {"impossible_speed"} ELSE {}),
      logged |-> speed]

\* ---- attendance.service.js clockIn, up to the INSERT ----
Rejected(code, logged) == [result |-> code, logged |-> logged, row |-> NoRow]

\* the INSERT leaving validation_status to the column default
NewRow_DefaultStatus(id, userId, facilityId, data, status, tags, time) ==
  [id |-> id, user_id |-> userId, facility_id |-> facilityId,
   clock_in_time |-> IF Truthy(data.clock_in_time) THEN data.clock_in_time ELSE time,
   clock_out_time |-> NullNum,
   clock_in_latitude |-> OrNull(data.clock_in_latitude),
   clock_in_longitude |-> OrNull(data.clock_in_longitude),
   validation_status |-> "verified", status |-> "active",
   device_id |-> data.device_id,
   client_timestamp |-> IF Truthy(data.client_timestamp) THEN data.client_timestamp
                        ELSE time,
   synced |-> data.synced, sync_version |-> 1,
   conflict_resolution_strategy |-> "server_wins",
   metadata |-> tags]

\* (the accuracy, distance and clock-out coordinate columns are written but read
\* by no operation of the model, and are left out of the rows)
NewRow(id, userId, facilityId, data, status, tags, time) ==
  [id |-> id, user_id |-> userId, facility_id |-> facilityId,
   clock_in_time |-> IF Truthy(data.clock_in_time) THEN data.clock_in_time ELSE time,
   clock_out_time |-> NullNum,
   clock_in_latitude |-> OrNull(data.clock_in_latitude),
   clock_in_longitude |-> OrNull(data.clock_in_longitude),
   validation_status |-> status, status |-> "active",
   device_id |-> data.device_id,
   client_timestamp |-> IF Truthy(data.client_timestamp) THEN data.client_timestamp
                        ELSE time,
   synced |-> data.synced, sync_version |-> 1,
   conflict_resolution_strategy |-> "server_wins",
   metadata |-> tags]

clockInDecision(data, userId, activeAttendance, lastAttendance, id, time, usePostgis) ==
  LET facilityId == IF data.facility_id # Null THEN data.facility_id
                    ELSE UserFacility(userId)
      coord == validateGpsCoordinates(data.clock_in_latitude, data.clock_in_longitude)
      spoof == runSpoofingChecks([latitude |-> data.clock_in_latitude,
                                  longitude |-> data.clock_in_longitude,
                                  accuracy |-> data.accuracy,
                                  is_mocked |-> data.is_mocked], lastAttendance, time)
      fence == validateGeofence(facilityId, data.clock_in_latitude,
                                data.clock_in_longitude, usePostgis)
      tags == (IF coord.warning THEN {"coordinate_warning"} ELSE {})
              \cup (IF spoof.warnings THEN {"spoofing_warnings"} ELSE {})
  IN IF activeAttendance.id # 0 THEN Rejected("AlreadyClockedIn", FALSE)
     ELSE IF facilityId = Null THEN Rejected("FacilityRequired", FALSE)
     ELSE IF data.synced = FALSE
     THEN [result |-> "ok", logged |-> FALSE,
           row |-> NewRow(id, userId, facilityId, data, "unverified",
                          {"offline"}, time)]
     ELSE IF ~coord.isValid THEN Rejected("InvalidCoordinates", FALSE)
     ELSE IF data.accuracy = NullNum THEN Rejected("AccuracyRequired", FALSE)
     ELSE IF data.accuracy > MAX_ACCEPTABLE_ACCURACY * 10
          THEN Rejected("AccuracyTooLow", FALSE)
     ELSE IF ~spoof.passed THEN Rejected("SpoofingRejected", spoof.logged)
     ELSE IF fence.error # Null THEN Rejected(fence.error, FALSE)
     ELSE IF ~fence.isWithinGeofence THEN Rejected("GeofenceViolation", FALSE)
     ELSE [result |-> "ok", logged |-> FALSE,
           row |-> NewRow(id, userId, facilityId, data,
                          IF tags # {} THEN "flagged" ELSE "verified",
                          tags \cup {"online"}, time)]

\* ---- attendance.service.js clockOut, up to the UPDATE ----
clockOutDecision(data, userId, activeAttendance, lastAttendance, time, usePostgis) ==
  LET coord == validateGpsCoordinates(data.clock_out_latitude, data.clock_out_longitude)
      spoof == runSpoofingChecks([latitude |-> data.clock_out_latitude,
                                  longitude |-> data.clock_out_longitude,
                                  accuracy |-> data.accuracy,
                                  is_mocked |-> data.is_mocked], lastAttendance, time)
      fence == validateGeofence(activeAttendance.facility_id, data.clock_out_latitude,
                                data.clock_out_longitude, usePostgis)
      tags == (IF coord.warning THEN {"clock_out_coordinate_warning"} ELSE {})
              \cup (IF spoof.warnings THEN {"clock_out_spoofing_warnings"} ELSE {})
      updated(extra) ==
        [activeAttendance EXCEPT
           !.clock_out_time = IF Truthy(data.clock_out_time) THEN data.clock_out_time
                              ELSE time,
           !.status = "completed",
           !.metadata = @ \cup extra]
  IN IF activeAttendance.id = 0 THEN Rejected("NotClockedIn", FALSE)
     ELSE IF data.synced = FALSE
     THEN [result |-> "ok", logged |-> FALSE, row |-> updated({"out_offline"})]
     ELSE IF ~coord.isValid THEN Rejected("InvalidCoordinates", FALSE)
     ELSE IF data.accuracy = NullNum THEN Rejected("AccuracyRequired", FALSE)
     ELSE IF data.accuracy > MAX_ACCEPTABLE_ACCURACY * 10
          THEN Rejected("AccuracyTooLow", FALSE)
     ELSE IF ~spoof.passed THEN Rejected("SpoofingRejected", spoof.logged)
     ELSE IF fence.error # Null THEN Rejected(fence.error, FALSE)
     ELSE IF ~fence.isWithinGeofence THEN Rejected("GeofenceViolation", FALSE)
     ELSE [result |-> "ok", logged |-> FALSE, row |-> updated(tags \cup {"out_online"})]

\* ---- request payloads ----
Latitudes == {NullNum, LatF1, LatLow, LatNullIsland}
Accuracies == {NullNum, 5, 400, 5010}

\* online clock-ins: every facility from two places, and every combination of
\* place, accuracy and mock flag at F1; offline clock-ins without a place
ClockInPayloads ==
  [facility_id : {Null, "F1", "F2", "F3", "F4", "F5", "FX"},
   clock_in_latitude : {LatF1, LatLow}, clock_in_longitude : {Meridian},
   accuracy : {400}, is_mocked : {FALSE}, synced : {TRUE},
   clock_in_time : {NullNum}, client_timestamp : {NullNum}, device_id : {"d1"}]
  \cup
  [facility_id : {"F1"},
   clock_in_latitude : Latitudes, clock_in_longitude : {Meridian},
   accuracy : Accuracies, is_mocked : BOOLEAN, synced : {TRUE},
   clock_in_time : {NullNum}, client_timestamp : {NullNum}, device_id : {"d1"}]
  \cup
  [facility_id : {Null, "F3", "FX"},
   clock_in_latitude : {NullNum}, clock_in_longitude : {NullNum},
   accuracy : {NullNum, 5010}, is_mocked : BOOLEAN, synced : {FALSE},
   clock_in_time : {NullNum}, client_timestamp : {NullNum}, device_id : {"d1"}]

ClockOutPayloads ==
  [clock_out_latitude : Latitudes, clock_out_longitude : {Meridian},
   accuracy : Accuracies, is_mocked : BOOLEAN, synced : {TRUE},
   clock_out_time : {NullNum}]
  \cup
  [clock_out_latitude : {NullNum, LatOut}, clock_out_longitude : {Meridian},
   accuracy : {NullNum}, is_mocked : {FALSE}, synced : {FALSE},
   clock_out_time : {NullNum}]

\* what the last call did: operation, caller, outcome, whether the speed check
\* logged a suspicious location, whether the payload asked for the online branch
\* and, for a call that succeeded: whether the facility it resolved is missing,
\* inactive or without coordinates, whether a warning was raised, and the id of
\* the row it wrote; for a sync, the counts of its summary
NoCounts == [inserted |-> 0, updated |-> 0, failed |-> 0, invalid |-> 0,
             hard |-> 0, old |-> 0]

BadFacility(facility) ==
  \/ facility \notin FacilityIds
  \/ ~Facility(facility).is_active
  \/ Facility(facility).latitude = NullNum
  \/ Facility(facility).longitude = NullNum

Outcome(op, user, result, facility, online, warned, logged, id) ==
  [op |-> op, user |-> user, result |-> result, sync |-> NoCounts,
   logged |-> logged,
   online |-> online,
   badFacility |-> result = "ok" /\ BadFacility(facility),
   warned |-> result = "ok" /\ warned,
   id |-> id]

NoOutcome == Outcome("none", Null, "none", Null, FALSE, FALSE, FALSE, 0)
NoGeo == [phase |-> "off"]

\* logSuspiciousActivity called whatever the speed check found
LogSuspicious_Always(log, userId, logged) ==
  Append(log, [user |-> userId, action |-> "suspicious_location"])

LogSuspicious(log, userId, logged) ==
  IF logged THEN Append(log, [user |-> userId, action |-> "suspicious_location"]) ELSE log

\* ---- the operations, each call running to completion ----
ClockIn(userId, data) ==
  /\ nops < MaxOps
  /\ \E active \in OneOf(findActiveByUserId(attendance, userId)),
        lastAtt \in OneOf(getLastAttendanceWithLocation(attendance, userId)) :
     \* the PostGIS query of validateGeofence works, or fails with a PostGIS error
     \E d \in {clockInDecision(data, userId, active, lastAtt,
                                Len(attendance) + 1, now, postgis) :
                  postgis \in BOOLEAN} :
       LET facilityId == IF data.facility_id # Null THEN data.facility_id
                         ELSE UserFacility(userId)
           spoof == runSpoofingChecks([latitude |-> data.clock_in_latitude,
                                       longitude |-> data.clock_in_longitude,
                                       accuracy |-> data.accuracy,
                                       is_mocked |-> data.is_mocked], lastAtt, now)
           warned == validateGpsCoordinates(data.clock_in_latitude,
                                            data.clock_in_longitude).warning
                     \/ spoof.warnings
           log == LogSuspicious(activities, userId, d.logged)
           out(result, id) == Outcome("clockIn", userId, result, facilityId,
                                      data.synced # FALSE,
                                      data.synced # FALSE /\ warned, d.logged, id)
       IN IF d.result # "ok"
          THEN /\ attendance' = attendance
               /\ activities' = log
               /\ last' = out(d.result, 0)
          ELSE IF RowViolates(d.row)
          THEN /\ attendance' = attendance
               /\ activities' = log
               /\ last' = out("DatabaseError", 0)
          ELSE /\ attendance' = Append(attendance, d.row)
               /\ activities' = Append(log, [user |-> userId, action |-> "clock_in"])
               /\ last' = out("ok", d.row.id)
  /\ nops' = nops + 1
  /\ now' = now + 1
  /\ UNCHANGED <<req, geo, sessVars, rlVars, probe>>

ClockOut(userId, data) ==
  /\ nops < MaxOps
  /\ \E active \in OneOf(findActiveByUserId(attendance, userId)),
        lastAtt \in OneOf(getLastAttendanceWithLocation(attendance, userId)) :
     \E d \in {clockOutDecision(data, userId, active, lastAtt, now, postgis) :
                  postgis \in BOOLEAN} :
       LET spoof == runSpoofingChecks([latitude |-> data.clock_out_latitude,
                                       longitude |-> data.clock_out_longitude,
                                       accuracy |-> data.accuracy,
                                       is_mocked |-> data.is_mocked], lastAtt, now)
           warned == validateGpsCoordinates(data.clock_out_latitude,
                                            data.clock_out_longitude).warning
                     \/ spoof.warnings
           log == LogSuspicious(activities, userId, d.logged)
           out(result, id) == Outcome("clockOut", userId, result,
                                      IF active.id = 0 THEN Null ELSE active.facility_id,
                                      data.synced # FALSE,
                                      data.synced # FALSE /\ warned, d.logged, id)
       IN IF d.result # "ok"
          THEN /\ attendance' = attendance
               /\ activities' = log
               /\ last' = out(d.result, 0)
          ELSE IF RowViolates(d.row)
                  \/ CoordsViolate(OrNull(data.clock_out_latitude),
                                   OrNull(data.clock_out_longitude))
          THEN /\ attendance' = attendance
               /\ activities' = log
               /\ last' = out("DatabaseError", 0)
          ELSE /\ attendance' = [attendance EXCEPT ![d.row.id] = d.row]
               /\ activities' = Append(log, [user |-> userId, action |-> "clock_out"])
               /\ last' = out("ok", d.row.id)
  /\ nops' = nops + 1
  /\ now' = now + 1
  /\ UNCHANGED <<req, geo, sessVars, rlVars, probe>>

\* ---- syncResolver.js validateSyncMetadata ----
validateSyncMetadata(record, time) ==
  LET errors ==
        (IF record.device_id = Null THEN {"device_id is required"} ELSE {})
        \cup (IF record.client_timestamp = NullNum
              THEN {"client_timestamp is required"} ELSE {})
        \cup (IF record.client_timestamp # NullNum
                 /\ time - record.client_timestamp > MaxAgeDays * SecondsPerDay
              THEN {"more than 30 days old"} ELSE {})
        \cup (IF record.client_timestamp # NullNum /\ record.client_timestamp > time
              THEN {"in the future"} ELSE {})
  IN [isValid |-> errors = {}, errors |-> errors]

\* detectConflict without the second of tolerance on timestamps
detectConflict_NoTolerance(clientRecord, serverRecord) ==
  \/ clientRecord.sync_version # serverRecord.sync_version
  \/ clientRecord.clock_in_time # serverRecord.clock_in_time
  \/ clientRecord.clock_out_time # serverRecord.clock_out_time
  \/ clientRecord.status # serverRecord.status

\* syncResolver.js detectConflict: the versions differ, or a critical field does
\* (timestamps that are both set may differ by a second)
detectConflict(clientRecord, serverRecord) ==
  LET TimesDiffer(c, s) ==
        c # s /\ (IF c # NullNum /\ s # NullNum THEN Abs(c - s) > 1 ELSE TRUE)
  IN \/ clientRecord.sync_version # serverRecord.sync_version
     \/ TimesDiffer(clientRecord.clock_in_time, serverRecord.clock_in_time)
     \/ TimesDiffer(clientRecord.clock_out_time, serverRecord.clock_out_time)
     \/ clientRecord.status # serverRecord.status

\* syncResolver.js mergeRecords without the increment of sync_version
mergeRecords_KeepVersion(clientRecord, serverRecord, preference) ==
  LET base == IF preference = "client" THEN clientRecord ELSE serverRecord
      other == IF preference = "client" THEN serverRecord ELSE clientRecord
      Version(r) == IF Truthy(r.sync_version) THEN r.sync_version ELSE 1
      Max(a, b) == IF a > b THEN a ELSE b
  IN [base EXCEPT
        !.id = serverRecord.id,
        !.created_at = serverRecord.created_at,
        !.sync_version = Max(Version(clientRecord), Version(serverRecord)),
        !.synced = TRUE,
        !.metadata = other.metadata \cup @ \cup {"conflict_resolved"}]

\* syncResolver.js mergeRecords
mergeRecords(clientRecord, serverRecord, preference) ==
  LET base == IF preference = "client" THEN clientRecord ELSE serverRecord
      other == IF preference = "client" THEN serverRecord ELSE clientRecord
      Version(r) == IF Truthy(r.sync_version) THEN r.sync_version ELSE 1
      Max(a, b) == IF a > b THEN a ELSE b
  IN [base EXCEPT
        !.id = serverRecord.id,
        !.created_at = serverRecord.created_at,
        !.sync_version = Max(Version(clientRecord), Version(serverRecord)) + 1,
        !.synced = TRUE,
        !.metadata = other.metadata \cup @ \cup {"conflict_resolved"}]

\* syncResolver.js resolveConflict; serverRecord is NoRow when none matches, and
\* resolved is NoRow where the code answers null
resolveConflict(clientRecord, serverRecord, strategy) ==
  IF serverRecord = NoRow
  THEN [resolved |-> clientRecord, action |-> "insert", conflict |-> FALSE,
        resolution |-> Null]
  ELSE IF ~detectConflict(clientRecord, serverRecord)
  THEN [resolved |-> serverRecord, action |-> "no_change", conflict |-> FALSE,
        resolution |-> Null]
  ELSE CASE strategy = "client_wins" ->
              [resolved |-> mergeRecords(clientRecord, serverRecord, "client"),
               action |-> "update", conflict |-> TRUE, resolution |-> "client_wins"]
         [] strategy = "server_wins" ->
              [resolved |-> serverRecord, action |-> "no_change", conflict |-> TRUE,
               resolution |-> "server_wins"]
         [] strategy = "manual" ->
              [resolved |-> NoRow, action |-> "manual_review", conflict |-> TRUE,
               resolution |-> "manual"]
         [] OTHER ->
              [resolved |-> serverRecord, action |-> "no_change", conflict |-> TRUE,
               resolution |-> "server_wins_default"]

\* ---- attendance.repository.js bulkSync ----
SyncInsertRow(id, record) ==
  [id |-> id, user_id |-> record.user_id, facility_id |-> record.facility_id,
   clock_in_time |-> record.clock_in_time,
   clock_out_time |-> OrNull(record.clock_out_time),
   clock_in_latitude |-> NullNum, clock_in_longitude |-> NullNum,
   validation_status |-> "verified",
   status |-> IF record.status # Null THEN record.status ELSE "completed",
   device_id |-> record.device_id, client_timestamp |-> record.client_timestamp,
   synced |-> TRUE,
   sync_version |-> IF Truthy(record.sync_version) THEN record.sync_version ELSE 1,
   conflict_resolution_strategy |->
     IF record.conflict_resolution_strategy # Null
     THEN record.conflict_resolution_strategy ELSE "server_wins",
   metadata |-> {"synced"}]

SyncUpdateRow(existingRecord, record) ==
  [existingRecord EXCEPT
     !.clock_out_time = IF Truthy(record.clock_out_time) THEN record.clock_out_time
                        ELSE @,
     !.status = IF record.status # Null THEN record.status ELSE @,
     !.sync_version = IF Truthy(record.sync_version) THEN record.sync_version
                      ELSE @ + 1,
     !.metadata = @ \cup {"synced"}]

\* one record of the batch inside the transaction; existing is the row the
\* SELECT returned first, or NoRow.  A failing statement aborts the
\* transaction: every later statement fails too and COMMIT rolls back.
SyncOne(st, record, existing) ==
  IF st.aborted THEN [st EXCEPT !.failed = @ + 1]
  ELSE IF existing.id = 0
  THEN LET row == SyncInsertRow(Len(st.table) + 1, record)
       IN IF RowViolates(row)
          THEN [st EXCEPT !.failed = @ + 1, !.aborted = TRUE]
          ELSE [st EXCEPT !.table = Append(@, row), !.inserted = @ + 1]
  ELSE IF (IF Truthy(record.sync_version) THEN record.sync_version ELSE 1)
          > existing.sync_version
  THEN LET row == SyncUpdateRow(existing, record)
       IN IF RowViolates(row)
          THEN [st EXCEPT !.failed = @ + 1, !.aborted = TRUE]
          ELSE [st EXCEPT !.table[existing.id] = row, !.updated = @ + 1]
  ELSE st

Matching(table, record) ==
  {r \in RowsOf(table) : r.device_id = record.device_id
                         /\ r.client_timestamp = record.client_timestamp}

\* the outcomes of the loop over records[i..], one per choice of the rows the
\* unordered SELECTs return first
RECURSIVE bulkSyncFrom(_, _, _)
bulkSyncFrom(st, records, i) ==
  IF i > Len(records) THEN {st}
  ELSE UNION {bulkSyncFrom(SyncOne(st, records[i], e), records, i + 1) :
                e \in OneOf(IF st.aborted THEN {} ELSE Matching(st.table, records[i]))}

bulkSync(table, records) ==
  {[r EXCEPT !.table = IF r.aborted THEN table ELSE @] :
     r \in bulkSyncFrom([table |-> table, inserted |-> 0, updated |-> 0,
                         failed |-> 0, aborted |-> FALSE], records, 1)}

\* ---- attendance.service.js syncOfflineRecords ----
SelectSeqBy(seq, Keep(_)) == SelectSeq(seq, Keep)

\* records a client may submit at the given time: under a key A a completed
\* record, an active one and an active one of version 2; under a key B a record
\* without device_id and one whose clock_out_time is not after its
\* clock_in_time; records that are 30 days and a second old, in the future, and
\* without client_timestamp
SyncRecord(device, ts, cin, cout, status, version) ==
  [device_id |-> device, client_timestamp |-> ts, facility_id |-> "F1",
   clock_in_time |-> cin, clock_out_time |-> cout, status |-> status,
   sync_version |-> version, conflict_resolution_strategy |-> Null]

SyncRecords(time) ==
  LET keyA == Place.t0 - 100
      keyB == Place.t0 - 50
      old == time - MaxAgeDays * SecondsPerDay
  IN << SyncRecord("d1", keyA, keyA, keyA + 10, Null, NullNum),
        SyncRecord("d1", keyA, keyA, NullNum, "active", NullNum),
        SyncRecord(Null, keyB, keyB, keyB + 10, "completed", NullNum),
        SyncRecord("d1", keyB, keyB, keyB, "completed", NullNum),
        SyncRecord("d1", keyA, keyA, NullNum, "active", 2),
        SyncRecord("d1", old - 1, old - 1, old, "completed", NullNum),
        SyncRecord("d1", time + 5, time, NullNum, "completed", NullNum),
        SyncRecord("d1", NullNum, keyB, keyB + 10, "completed", NullNum) >>

\* the records of s at the positions in idx, in order
RECURSIVE Pick(_, _)
Pick(s, idx) ==
  IF idx = {} THEN <<>>
  ELSE LET m == CHOOSE i \in idx : \A j \in idx : i <= j
       IN <<s[m]>> \o Pick(s, idx \ {m})

NumSyncRecords == Len(SyncRecords(0))

\* batches of 1..MaxBatch of these records, in the order above
BatchIndexes ==
  {x \in SUBSET (1..NumSyncRecords) : Cardinality(x) \in 1..MaxBatch}

SyncBatch(userId, records) ==
  /\ nops < MaxOps
  /\ LET owned == [i \in 1..Len(records) |-> [user_id |-> userId] @@ records[i]]
         IsValid(r) == validateSyncMetadata(r, now).isValid
         validRecords == SelectSeqBy(owned, IsValid)
         Missing(r) == r.device_id = Null \/ r.client_timestamp = NullNum
         counts(res) ==
           [inserted |-> res.inserted, updated |-> res.updated, failed |-> res.failed,
            invalid |-> Len(records) - Len(validRecords),
            hard |-> Cardinality({i \in 1..Len(records) :
                       Missing(records[i]) \/ records[i].client_timestamp > now}),
            old |-> Cardinality({i \in 1..Len(records) :
                       /\ ~Missing(records[i])
                       /\ records[i].client_timestamp <= now
                       /\ now - records[i].client_timestamp
                            > MaxAgeDays * SecondsPerDay})]
         none == [inserted |-> 0, updated |-> 0, failed |-> 0]
     IN IF Len(validRecords) = 0
        THEN /\ attendance' = attendance
             /\ activities' = activities
             /\ last' = [NoOutcome EXCEPT !.op = "sync", !.user = userId,
                                          !.result = "NoValidRecords",
                                          !.sync = counts(none)]
        ELSE \E res \in bulkSync(attendance, validRecords) :
               /\ attendance' = res.table
               /\ activities' = Append(activities, [user |-> userId, action |-> "sync"])
               /\ last' = [NoOutcome EXCEPT !.op = "sync", !.user = userId,
                                            !.result = "ok", !.sync = counts(res)]
  /\ nops' = nops + 1
  /\ now' = now + 1
  /\ UNCHANGED <<req, geo, sessVars, rlVars, probe>>

\* time passing between calls
Tick ==
  /\ nops < MaxOps
  /\ now - Place.t0 < Place.pause
  /\ now' = now + Place.pause
  /\ UNCHANGED <<attendance, activities, last, nops, req, geo, sessVars, rlVars, probe>>

\* ---- rateLimiter.middleware.js: RateLimitStore and the auth limiter ----
windowMs == 900000
maxAttempts == 5
blockDuration == 1800000
CleanupGraceMs == 60000
MaxRequests == 7

\* `${email}-${req.ip}` of the requests under study
Identifiers == {"unknown-ip1"}

NoData == [count |-> NullNum, resetTime |-> NullNum]

\* RateLimitStore.get: the stored entry, or a fresh one that resets "now"
get(st, identifier, time) ==
  IF st.requests[identifier] # NoData THEN st.requests[identifier]
  ELSE [count |-> 0, resetTime |-> time]

\* RateLimitStore.increment
increment(st, identifier, window, time) ==
  LET data == get(st, identifier, time)
  IN IF time > data.resetTime
       THEN [count |-> 1, resetTime |-> time + window]
       ELSE [data EXCEPT !.count = @ + 1]

\* RateLimitStore.block
block(st, identifier, duration, time) ==
  [st EXCEPT !.blocked[identifier] = time + duration]

\* RateLimitStore.isBlocked: the answer and the store it leaves
isBlocked(st, identifier, time) ==
  LET unblockTime == st.blocked[identifier]
  IN IF unblockTime = NullNum THEN [blocked |-> FALSE, store |-> st]
     ELSE IF time > unblockTime
       THEN [blocked |-> FALSE, store |-> [st EXCEPT !.blocked[identifier] = NullNum]]
       ELSE [blocked |-> TRUE, store |-> st]

\* RateLimitStore.cleanup, run every five minutes
cleanup(st, time) ==
  [requests |-> [i \in Identifiers |->
                   IF st.requests[i] # NoData /\ time > st.requests[i].resetTime + CleanupGraceMs
                     THEN NoData ELSE st.requests[i]],
   blocked |-> [i \in Identifiers |->
                   IF st.blocked[i] # NullNum /\ time > st.blocked[i]
                     THEN NullNum ELSE st.blocked[i]]]

InitLimiter ==
  /\ store = [requests |-> [i \in Identifiers |-> NoData],
              blocked |-> [i \in Identifiers |-> NullNum]]
  /\ clockMs = 0
  /\ served = [i \in Identifiers |-> [passed |-> <<>>, handled |-> 0, answer |-> Null]]

\* authRateLimiter in front of a handler that answers with a status below 400
\* (failed = FALSE) or of 400 and above (failed = TRUE); skipSuccessfulRequests
\* takes the successful request off the count again
authRateLimiter(identifier, failed) ==
  LET chk == isBlocked(store, identifier, clockMs)
      data == increment(chk.store, identifier, windowMs, clockMs)
      counted == [chk.store EXCEPT !.requests[identifier] = data]
  IN /\ served[identifier].handled < MaxRequests
     /\ IF chk.blocked
          THEN /\ store' = chk.store
               /\ served' = [served EXCEPT ![identifier].handled = @ + 1,
                                           ![identifier].answer = "RATE_LIMIT_BLOCKED"]
          ELSE IF data.count > maxAttempts
            THEN /\ store' = block(counted, identifier, blockDuration, clockMs)
                 /\ served' = [served EXCEPT ![identifier].handled = @ + 1,
                                             ![identifier].answer = "RATE_LIMIT_EXCEEDED"]
            ELSE /\ store' = IF failed THEN counted
                             ELSE [counted EXCEPT !.requests[identifier].count = @ - 1]
                 /\ served' = [served EXCEPT
                      ![identifier].handled = @ + 1,
                      ![identifier].answer = IF failed THEN "failed" ELSE "ok",
                      ![identifier].passed = IF failed THEN Append(@, clockMs) ELSE @]
     /\ UNCHANGED <<attendance, activities, now, last, nops, req, geo, sessVars, clockMs, probe>>

\* the instants the limiter is observed at
LimiterTimes ==
  {a + b * windowMs + c * blockDuration : a \in 0..MaxSkew, b \in {0, 1}, c \in {0, 1}}

LimiterWait(d) ==
  /\ clockMs + d \in LimiterTimes
  /\ clockMs' = clockMs + d
  /\ UNCHANGED <<attendance, activities, now, last, nops, req, geo, sessVars, store, served, probe>>

LimiterCleanup ==
  /\ store' = cleanup(store, clockMs)
  /\ store' # store
  /\ UNCHANGED <<attendance, activities, now, last, nops, req, geo, sessVars, clockMs, served, probe>>

RequestStep == \E i \in Identifiers, failed \in BOOLEAN : authRateLimiter(i, failed)
LimiterWaitStep == \E d \in {1, windowMs, blockDuration} : LimiterWait(d)

NextLimiter == RequestStep \/ LimiterWaitStep \/ LimiterCleanup

\* ---- sessions.repository.js, auth.service.js login, auth.middleware.js ----
\* jwt.sign: the token is a function of its payload (the user) and of iat, the
\* second it was signed in; its exp is iat + TokenTtl
generateAccessToken(userId, time) == [user |-> userId, iat |-> time]

NoToken == [user |-> Null, iat |-> 0]

\* SHA-256 of the token, taken as collision free
hashToken(token) == <<"sha256", token.user, token.iat>>

getTokenExpirationDate(time) == time + TokenTtl

createSession(table, sessionData) ==
  Append(table, [id |-> Len(table) + 1, user_id |-> sessionData.user_id,
                 token_hash |-> hashToken(sessionData.token), is_active |-> TRUE,
                 expires_at |-> sessionData.expires_at,
                 invalidation_reason |-> Null])

\* invalidateUserSessions sparing the newest row of the table
invalidateUserSessions_ExceptLatest(table, userId, reason) ==
  [i \in 1..Len(table) |->
     IF table[i].user_id = userId /\ table[i].is_active /\ i # Len(table)
     THEN [table[i] EXCEPT !.is_active = FALSE, !.invalidation_reason = reason]
     ELSE table[i]]

invalidateUserSessions(table, userId, reason) ==
  [i \in 1..Len(table) |->
     IF table[i].user_id = userId /\ table[i].is_active
     THEN [table[i] EXCEPT !.is_active = FALSE, !.invalidation_reason = reason]
     ELSE table[i]]

findActiveSessionByToken(table, token, time) ==
  {r \in RowsOf(table) :
     r.token_hash = hashToken(token) /\ r.is_active /\ r.expires_at > time}

cleanupExpiredSessions(table, time) ==
  [i \in 1..Len(table) |->
     IF table[i].is_active /\ table[i].expires_at < time
     THEN [table[i] EXCEPT !.is_active = FALSE, !.invalidation_reason = "expired"]
     ELSE table[i]]

\* jwt.verify: the token is expired once the clock has reached its exp
jwtExpired(token, time) == time >= token.iat + TokenTtl

\* authenticate looking the session up before verifying the token
authenticate_SessionFirst(table, active, token, time) ==
  IF findActiveSessionByToken(table, token, time) = {} THEN {"SessionInvalidated"}
  ELSE IF jwtExpired(token, time) THEN {"TokenExpired"}
  ELSE {IF ~active[session.user_id] THEN "AccountDeactivated" ELSE "ok" :
          session \in findActiveSessionByToken(table, token, time)}

\* auth.middleware.js authenticate: the answers it can give to a signed token,
\* one per row the session query may return first
authenticate(table, active, token, time) ==
  IF jwtExpired(token, time) THEN {"TokenExpired"}
  ELSE IF findActiveSessionByToken(table, token, time) = {} THEN {"SessionInvalidated"}
  ELSE {IF ~active[session.user_id] THEN "AccountDeactivated" ELSE "ok" :
          session \in findActiveSessionByToken(table, token, time)}

\* auth.middleware.js authenticate when the session query throws: the catch
\* logs a warning and the request goes on to the user query
authenticateSessionError(active, token, time) ==
  IF jwtExpired(token, time) THEN {"TokenExpired"}
  ELSE IF ~active[token.user] THEN {"UserNotFound"}
  ELSE {"ok"}

NoAuth == [op |-> "none", user |-> Null, token |-> NoToken, result |-> "none"]

InitSessions ==
  /\ sessions = <<>>
  /\ userActive = [u \in Users |-> TRUE]
  /\ auth = NoAuth

\* the seconds at which the clock of the session model can stand
ClockTimes == {Place.t0 + a + b * TokenTtl : a \in 0..MaxSkew, b \in {0, 1}}

\* signed tokens a client can hold: those a login issued, and those that
\* register and refresh sign without creating a session
Tokens == {generateAccessToken(u, t) : u \in Users, t \in {c \in ClockTimes : c <= now}}

\* auth.service.js login up to the tokens: the user lookup and the password
LoginCheck(userId, passwordOk) ==
  IF ~userActive[userId] THEN "AccountPending"
  ELSE IF ~passwordOk THEN "InvalidCredentials"
  ELSE "ok"

\* auth.service.js login, run to completion
Login(userId, passwordOk) ==
  /\ nops < MaxOps
  /\ LET result == LoginCheck(userId, passwordOk)
         token == generateAccessToken(userId, now)
     IN IF result = "ok"
        THEN /\ sessions' = createSession(
                               invalidateUserSessions(sessions, userId, "new_login"),
                               [user_id |-> userId, token |-> token,
                                expires_at |-> getTokenExpirationDate(now)])
             /\ activities' = Append(activities, [user |-> userId, action |-> "login"])
             /\ auth' = [op |-> "login", user |-> userId, token |-> token,
                         result |-> "ok"]
        ELSE /\ sessions' = sessions
             /\ activities' = IF result = "InvalidCredentials"
                              THEN Append(activities,
                                          [user |-> userId, action |-> "login_failed"])
                              ELSE activities
             /\ auth' = [op |-> "login", user |-> userId, token |-> NoToken,
                         result |-> result]
  /\ nops' = nops + 1
  /\ UNCHANGED <<attendance, now, last, req, geo, userActive, rlVars, probe>>

\* a request to an authenticated route other than logout
Validate(token) ==
  /\ \E result \in authenticate(sessions, userActive, token, now) :
       auth' = [op |-> "validate", user |-> token.user, token |-> token,
                result |-> result]
  /\ UNCHANGED <<attendance, activities, now, last, nops, req, geo, sessions, userActive, rlVars, probe>>

\* POST /api/auth/logout: authenticate, then auth.controller.js logout
Logout(token) ==
  /\ nops < MaxOps
  /\ \E result \in authenticate(sessions, userActive, token, now) :
       /\ activities' = IF result = "ok"
                        THEN Append(activities,
                                    [user |-> token.user, action |-> "logout"])
                        ELSE activities
       /\ auth' = [op |-> "logout", user |-> token.user, token |-> token,
                   result |-> result]
  /\ nops' = nops + 1
  /\ UNCHANGED <<attendance, now, last, req, geo, sessions, userActive, rlVars, probe>>

\* the scheduled sweep
Cleanup ==
  /\ sessions' = cleanupExpiredSessions(sessions, now)
  /\ UNCHANGED <<attendance, activities, now, last, nops, req, geo, userActive, auth, rlVars, probe>>

\* users.repository.js remove: an administrator deactivates the account
Deactivate(userId) ==
  /\ nops < MaxOps
  /\ userActive[userId]
  /\ userActive' = [userActive EXCEPT ![userId] = FALSE]
  /\ nops' = nops + 1
  /\ UNCHANGED <<attendance, activities, now, last, req, geo, sessions, auth, rlVars, probe>>

\* a second, or the lifetime of a token, passes
Wait(d) ==
  /\ now + d \in ClockTimes
  /\ now' = now + d
  /\ UNCHANGED <<attendance, activities, last, nops, req, geo, sessVars, rlVars, probe>>

\* a request to an authenticated route while the session query fails
ValidateSessionError(token) ==
  /\ \E result \in authenticateSessionError(userActive, token, now) :
       auth' = [op |-> "validateSessionError", user |-> token.user, token |-> token,
                result |-> result]
  /\ UNCHANGED <<attendance, activities, now, last, nops, req, geo, sessions, userActive, rlVars, probe>>

\* auth.service.js refresh, called with the refresh token a login of the user
\* returned: a new access token, and no session for it
Refresh(userId) ==
  /\ \E r \in RowsOf(sessions) : r.user_id = userId
  /\ auth' = IF userActive[userId]
             THEN [op |-> "refresh", user |-> userId,
                   token |-> generateAccessToken(userId, now), result |-> "ok"]
             ELSE [op |-> "refresh", user |-> userId, token |-> NoToken,
                   result |-> "InvalidRefreshToken"]
  /\ UNCHANGED <<attendance, activities, now, last, nops, req, geo, sessions, userActive, rlVars, probe>>

LoginStep == \E u \in Users, passwordOk \in BOOLEAN : Login(u, passwordOk)
ValidateStep == \E token \in Tokens : Validate(token)
LogoutStep == \E token \in Tokens : Logout(token)
DeactivateStep == \E u \in Users : Deactivate(u)
WaitStep == \E d \in {1, TokenTtl} : Wait(d)

SessionErrorStep == \E token \in Tokens : ValidateSessionError(token)
RefreshStep == \E u \in Users : Refresh(u)

\* logins, refreshes and authenticated requests, with a session query that may fail
NextSessionExt ==
  LoginStep \/ RefreshStep \/ ValidateStep \/ SessionErrorStep \/ DeactivateStep \/ WaitStep

NextSession ==
  LoginStep \/ ValidateStep \/ LogoutStep \/ Cleanup \/ DeactivateStep \/ WaitStep

Init ==
  /\ attendance = <<>>
  /\ activities = <<>>
  /\ now = Place.t0
  /\ last = NoOutcome
  /\ nops = 0
  /\ req = <<>>
  /\ geo = NoGeo
  /\ InitSessions
  /\ InitLimiter
  /\ probe = NoProbe

ClockInStep == \E u \in Users, d \in ClockInPayloads : ClockIn(u, d)
ClockOutStep == \E u \in Users, d \in ClockOutPayloads : ClockOut(u, d)

SyncStep ==
  \E u \in Users, idx \in BatchIndexes : SyncBatch(u, Pick(SyncRecords(now), idx))

\* clock-ins and clock-outs only, one call at a time
NextSeq == ClockInStep \/ ClockOutStep \/ Tick

SpecSeq == Init /\ [][NextSeq]_vars

\* every operation of the attendance engine, one call at a time
Next == ClockInStep \/ ClockOutStep \/ SyncStep \/ Tick

Spec == Init /\ [][Next]_vars

\* logins, logouts, authenticated requests and the sweep, one call at a time
SpecSession == Init /\ [][NextSession]_vars

\* the auth rate limiter alone, one request at a time
SpecLimiter == Init /\ [][NextLimiter]_vars

\* ---- clock-outs that supply their own clock_out_time ----
TimedClockOutPayloads ==
  [clock_out_latitude : {NullNum, LatF1}, clock_out_longitude : {Meridian},
   accuracy : {NullNum, 400}, is_mocked : {FALSE}, synced : {TRUE, FALSE},
   clock_out_time : {NullNum, Place.t0 - 1, Place.t0, Place.t0 + 1,
                     Place.t0 + Place.pause}]

\* clock-ins at F1, with the server's time or a clock_in_time of the caller
TimedClockInPayloads ==
  [facility_id : {"F1"},
   clock_in_latitude : {LatF1}, clock_in_longitude : {Meridian},
   accuracy : {400}, is_mocked : {FALSE}, synced : {TRUE, FALSE},
   clock_in_time : {NullNum, Place.t0 + Place.pause},
   client_timestamp : {NullNum}, device_id : {"d1"}]

TimedClockInStep == \E u \in Users, d \in TimedClockInPayloads : ClockIn(u, d)
TimedClockOutStep == \E u \in Users, d \in TimedClockOutPayloads : ClockOut(u, d)

NextTimed == TimedClockInStep \/ TimedClockOutStep \/ Tick

SpecTimed == Init /\ [][NextTimed]_vars

SpecSessionExt == Init /\ [][NextSessionExt]_vars

\* ---- concurrent clock-ins: the check and the INSERT are separate queries ----
MaxReq == 2
Slots == 1..MaxReq
Idle == [pc |-> "idle"]

InitConc ==
  /\ attendance = <<>>
  /\ activities = <<>>
  /\ now = Place.t0
  /\ last = NoOutcome
  /\ nops = 0
  /\ req = [s \in Slots |-> Idle]
  /\ geo = NoGeo
  /\ InitSessions
  /\ InitLimiter
  /\ probe = NoProbe

\* the request runs findActiveByUserId and the validations against the table
\* as it is now; a rejection ends the call, otherwise the row waits for INSERT
BeginClockIn(s, userId, data) ==
  /\ nops < MaxOps
  /\ req[s].pc = "idle"
  /\ \E active \in OneOf(findActiveByUserId(attendance, userId)),
        lastAtt \in OneOf(getLastAttendanceWithLocation(attendance, userId)) :
     \E d \in {clockInDecision(data, userId, active, lastAtt, 0, now, postgis) :
                  postgis \in BOOLEAN} :
       /\ activities' = LogSuspicious(activities, userId, d.logged)
       /\ IF d.result # "ok"
          THEN /\ req' = req
               /\ last' = Outcome("clockIn", userId, d.result, Null,
                                  data.synced # FALSE, FALSE, d.logged, 0)
          ELSE /\ req' = [req EXCEPT ![s] = [pc |-> "insert", row |-> d.row]]
               /\ last' = last
  /\ nops' = nops + 1
  /\ now' = now + 1
  /\ UNCHANGED <<attendance, geo, sessVars, rlVars, probe>>

\* attendance.repository.js clockIn: the INSERT; the table has no unique index
\* on (user_id) where status = 'active', so only RowViolates can refuse it
FinishClockIn(s) ==
  /\ req[s].pc = "insert"
  /\ LET row == [req[s].row EXCEPT !.id = Len(attendance) + 1]
     IN IF RowViolates(row)
        THEN /\ attendance' = attendance
             /\ activities' = activities
             /\ last' = Outcome("clockIn", row.user_id, "DatabaseError", row.facility_id,
                                row.synced, FALSE, FALSE, 0)
        ELSE /\ attendance' = Append(attendance, row)
             /\ activities' = Append(activities,
                                     [user |-> row.user_id, action |-> "clock_in"])
             /\ last' = Outcome("clockIn", row.user_id, "ok", row.facility_id,
                                row.synced, row.validation_status = "flagged", FALSE,
                                row.id)
  /\ req' = [req EXCEPT ![s] = Idle]
  /\ UNCHANGED <<now, nops, geo, sessVars, rlVars, probe>>

BeginStep == \E s \in Slots, u \in Users, d \in ClockInPayloads : BeginClockIn(s, u, d)
FinishStep == \E s \in Slots : FinishClockIn(s)

NextConc == BeginStep \/ FinishStep

SpecConc == InitConc /\ [][NextConc]_vars

\* ---- validateGeofence on a facility with coordinates, by raw distance ----
GeoRadii == {NullNum, 50, 100}
GeoInputs ==
  {[phase |-> "input", radius |-> r, dist |-> d, postgis |-> p, within |-> FALSE] :
     r \in GeoRadii, p \in BOOLEAN,
     d \in UNION {(x * 10 - DistSpan)..(x * 10 + DistSpan) : x \in {50, 100}}}

InitGeo ==
  /\ attendance = <<>>
  /\ activities = <<>>
  /\ now = Place.t0
  /\ last = NoOutcome
  /\ nops = 0
  /\ req = <<>>
  /\ geo \in GeoInputs
  /\ InitSessions
  /\ InitLimiter
  /\ probe = NoProbe

ValidateGeofence ==
  /\ geo.phase = "input"
  /\ geo' = [geo EXCEPT
               !.phase = "done",
               !.within = geofenceDecision(
                            [id |-> "F1", is_active |-> TRUE, latitude |-> LatF1,
                             longitude |-> Meridian, geofence_radius |-> geo.radius],
                            geo.dist, geo.postgis).isWithinGeofence]
  /\ UNCHANGED <<attendance, activities, now, last, nops, req, sessVars, rlVars, probe>>

NextGeo == ValidateGeofence

SpecGeo == InitGeo /\ [][NextGeo]_vars

\* ---- runSpoofingChecks alone, over places, accuracies, flags and delays ----
SpoofLocations ==
  [latitude : {NullNum, 0, LatF1, LatLow}, longitude : {0, Meridian},
   accuracy : {NullNum, 5, MIN_SUSPICIOUS_ACCURACY * 10,
               MAX_ACCEPTABLE_ACCURACY * 10, MAX_ACCEPTABLE_ACCURACY * 10 + 1},
   is_mocked : BOOLEAN]

\* what getLastAttendanceWithLocation returned: no row, or a row clocked in at
\* Place.t0 on or off the equator and the prime meridian
SpoofLastRows ==
  {NoRow} \cup
  [id : {1}, clock_in_latitude : {0, LatF1}, clock_in_longitude : {0, Meridian},
   clock_in_time : {Place.t0}]

\* seconds between the last clock-in and new Date()
SpoofDelays == {-1, 0, Place.pause - 10, Place.pause}

NoSpoofing == [passed |-> TRUE, warnings |-> FALSE, flags |-> {}, logged |-> FALSE]

SpoofInputs ==
  {[phase |-> "input", locationData |-> l, lastAttendance |-> r, delay |-> d,
    result |-> NoSpoofing] :
     l \in SpoofLocations, r \in SpoofLastRows, d \in SpoofDelays}

InitSpoof ==
  /\ attendance = <<>>
  /\ activities = <<>>
  /\ now = Place.t0
  /\ last = NoOutcome
  /\ nops = 0
  /\ req = <<>>
  /\ geo = NoGeo
  /\ InitSessions
  /\ InitLimiter
  /\ probe \in SpoofInputs

RunSpoofingChecks ==
  /\ probe.phase = "input"
  /\ probe' = [probe EXCEPT
                 !.phase = "done",
                 !.result = runSpoofingChecks(probe.locationData, probe.lastAttendance,
                                              Place.t0 + probe.delay)]
  /\ UNCHANGED <<attendance, activities, now, last, nops, req, geo, sessVars, rlVars>>

NextSpoof == RunSpoofingChecks

SpecSpoof == InitSpoof /\ [][NextSpoof]_vars

\* ---- syncs of one record that meet the row stored under the same key ----
ConflictStrategies == {Null, "server_wins", "manual", "client_wins", "newest_wins"}

\* records under one (device_id, client_timestamp) key, by strategy, sync_version
\* and clock_out_time
ConflictRecords ==
  LET keyA == Place.t0 - 100
  IN {[SyncRecord("d1", keyA, keyA, cout, Null, v)
         EXCEPT !.conflict_resolution_strategy = strategy] :
        strategy \in ConflictStrategies, v \in {NullNum, 2, 3},
        cout \in {keyA + 10, keyA + 20}}

SyncConflictStep == \E u \in Users, rec \in ConflictRecords : SyncBatch(u, <<rec>>)

NextSync == SyncConflictStep

SpecSync == Init /\ [][NextSync]_vars

\* ---- resolveConflict alone: a server record, the records clients submit
\* against it, and each client_wins merge becoming the next server record ----
MaxMerges == 3

ResolverRecord(id, created, version, cin, cout, status) ==
  [id |-> id, created_at |-> created, sync_version |-> version,
   clock_in_time |-> cin, clock_out_time |-> cout, status |-> status,
   synced |-> FALSE, metadata |-> {}]

\* what a device holds, under its own id and created_at: an open record with no
\* version or version 1 or 2, clocked in at, one second after or two seconds
\* after Place.t0; the same record closed; and one completed without clock-out
ClientRecords ==
  {ResolverRecord(7, Place.t0 + Place.pause, v, Place.t0 + d, NullNum, "active") :
     v \in {NullNum, 1, 2}, d \in {0, 1, 2}}
  \cup
  {ResolverRecord(7, Place.t0 + Place.pause, v, Place.t0 + d,
                  Place.t0 + Place.pause + d, "completed") :
     v \in {1, 2}, d \in {0, 1}}
  \cup
  {ResolverRecord(7, Place.t0 + Place.pause, 1, Place.t0, NullNum, "completed")}

ServerRecords ==
  {NoRow} \cup
  {ResolverRecord(1, Place.t0, v, Place.t0, NullNum, "active") : v \in {1, 2}}
  \cup
  {ResolverRecord(1, Place.t0, v, Place.t0, Place.t0 + Place.pause, "completed") :
     v \in {1, 2}}

NoResolution == [resolved |-> NoRow, action |-> "none", conflict |-> FALSE,
                 resolution |-> Null]

InitResolve ==
  /\ attendance = <<>>
  /\ activities = <<>>
  /\ now = Place.t0
  /\ last = NoOutcome
  /\ nops = 0
  /\ req = <<>>
  /\ geo = NoGeo
  /\ InitSessions
  /\ InitLimiter
  /\ \E s \in ServerRecords :
       probe = [phase |-> "resolver", server |-> s, original |-> s, merges |-> 0,
                result |-> NoResolution]

Resolve(clientRecord, strategy) ==
  /\ probe.phase = "resolver"
  /\ probe.merges < MaxMerges
  /\ LET res == resolveConflict(clientRecord, probe.server, strategy)
     IN probe' = [probe EXCEPT
                    !.result = res,
                    !.server = IF res.action = "update" THEN res.resolved ELSE @,
                    !.merges = IF res.action = "update" THEN @ + 1 ELSE @]
  /\ UNCHANGED <<attendance, activities, now, last, nops, req, geo, sessVars, rlVars>>

ResolveStep ==
  \E c \in ClientRecords, strategy \in {Null, "client_wins", "server_wins", "manual"} :
    Resolve(c, strategy)

NextResolve == ResolveStep

SpecResolve == InitResolve /\ [][NextResolve]_vars

\* ---- concurrent syncs of one record each: the SELECT by key and the write are
\* separate statements, and a transaction sees only committed rows ----
RetryRecords == {SyncRecords(Place.t0)[i] : i \in 1..5}

\* syncOfflineRecords up to the SELECT of bulkSync
BeginSync(s, userId, record) ==
  /\ nops < MaxOps
  /\ req[s].pc = "idle"
  /\ LET owned == [user_id |-> userId] @@ record
     IN IF ~validateSyncMetadata(owned, now).isValid
        THEN /\ req' = req
             /\ last' = [NoOutcome EXCEPT !.op = "sync", !.user = userId,
                                          !.result = "NoValidRecords",
                                          !.sync = [NoCounts EXCEPT !.invalid = 1]]
        ELSE /\ \E e \in OneOf(Matching(attendance, owned)) :
                  req' = [req EXCEPT ![s] = [pc |-> "write", record |-> owned,
                                             existing |-> e]]
             /\ last' = last
  /\ nops' = nops + 1
  /\ now' = now + 1
  /\ UNCHANGED <<attendance, activities, geo, sessVars, rlVars, probe>>

\* the INSERT or UPDATE that the SELECT's answer calls for, COMMIT, and the
\* activity log of syncOfflineRecords
FinishSync(s) ==
  /\ req[s].pc = "write"
  /\ LET res == SyncOne([table |-> attendance, inserted |-> 0, updated |-> 0,
                         failed |-> 0, aborted |-> FALSE],
                        req[s].record, req[s].existing)
     IN /\ attendance' = IF res.aborted THEN attendance ELSE res.table
        /\ activities' = Append(activities,
                                [user |-> req[s].record.user_id, action |-> "sync"])
        /\ last' = [NoOutcome EXCEPT
                      !.op = "sync", !.user = req[s].record.user_id, !.result = "ok",
                      !.sync = [NoCounts EXCEPT !.inserted = res.inserted,
                                                !.updated = res.updated,
                                                !.failed = res.failed]]
  /\ req' = [req EXCEPT ![s] = Idle]
  /\ UNCHANGED <<now, nops, geo, sessVars, rlVars, probe>>

BeginSyncStep == \E s \in Slots, u \in Users, rec \in RetryRecords : BeginSync(s, u, rec)
FinishSyncStep == \E s \in Slots : FinishSync(s)

NextSyncConc == BeginSyncStep \/ FinishSyncStep

SpecSyncConc == InitConc /\ [][NextSyncConc]_vars

\* ---- concurrent logins: invalidateUserSessions and createSession are two
\* separate statements, outside any transaction ----
\* auth.service.js login up to and including invalidateUserSessions
BeginLogin(s, userId, passwordOk) ==
  /\ nops < MaxOps
  /\ req[s].pc = "idle"
  /\ LET result == LoginCheck(userId, passwordOk)
         token == generateAccessToken(userId, now)
     IN IF result = "ok"
        THEN /\ sessions' = invalidateUserSessions(sessions, userId, "new_login")
             /\ req' = [req EXCEPT ![s] = [pc |-> "create", user_id |-> userId,
                                           token |-> token]]
             /\ activities' = activities
             /\ auth' = auth
        ELSE /\ sessions' = sessions
             /\ req' = req
             /\ activities' = IF result = "InvalidCredentials"
                              THEN Append(activities,
                                          [user |-> userId, action |-> "login_failed"])
                              ELSE activities
             /\ auth' = [op |-> "login", user |-> userId, token |-> NoToken,
                         result |-> result]
  /\ nops' = nops + 1
  /\ UNCHANGED <<attendance, now, last, geo, userActive, rlVars, probe>>

\* auth.service.js login from createSession on
FinishLogin(s) ==
  /\ req[s].pc = "create"
  /\ sessions' = createSession(sessions,
                               [user_id |-> req[s].user_id, token |-> req[s].token,
                                expires_at |-> getTokenExpirationDate(now)])
  /\ activities' = Append(activities, [user |-> req[s].user_id, action |-> "login"])
  /\ auth' = [op |-> "login", user |-> req[s].user_id, token |-> req[s].token,
              result |-> "ok"]
  /\ req' = [req EXCEPT ![s] = Idle]
  /\ UNCHANGED <<attendance, now, last, nops, geo, userActive, rlVars, probe>>

\* the sweep and the clock leave the requests in flight alone
SweepStep == Cleanup /\ UNCHANGED req
ClockStep == WaitStep /\ UNCHANGED req

BeginLoginStep ==
  \E s \in Slots, u \in Users, passwordOk \in BOOLEAN : BeginLogin(s, u, passwordOk)
FinishLoginStep == \E s \in Slots : FinishLogin(s)

NextSessionConc == BeginLoginStep \/ FinishLoginStep \/ SweepStep \/ ClockStep

SpecSessionConc == InitConc /\ [][NextSessionConc]_vars

\* ======================= the claims =======================
ActiveRows(table, userId) ==
  {r \in RowsOf(table) : r.user_id = userId /\ r.status = "active"}

Stepped == nops' = nops + 1

ValidationRejections ==
  {"InvalidCoordinates", "AccuracyRequired", "AccuracyTooLow", "SpoofingRejected",
   "FacilityUnavailable", "GeofenceUnconfigured", "GeofenceViolation"}

\* C1: under sequential ClockIn and ClockOut calls, every reachable state has at
\* most one attendance row with status = active per user.
C1_AtMostOneActive ==
  \A u \in Users : Cardinality(ActiveRows(attendance, u)) <= 1

\* a second clock-in was attempted while the user's one active row existed
C1_Witness ==
  /\ last.op = "clockIn" /\ last.result = "AlreadyClockedIn"
  /\ Cardinality(ActiveRows(attendance, last.user)) = 1

\* C2: with two ClockIn requests of one user interleaved between check and INSERT,
\* the second INSERT fails, so no state has two active rows for that user.
C2_ConcurrentClockInSingleActive ==
  \A u \in Users : \A r1, r2 \in ActiveRows(attendance, u) : r1.id = r2.id

\* C3: after any SyncBatch, no user has more than one row with status = active.
C3_SyncKeepsSingleActive ==
  last.op = "sync" => \A u \in Users : Cardinality(ActiveRows(attendance, u)) < 2

\* C4: a ClockIn of a user who has an ACTIVE row fails with AlreadyClockedIn
\* whatever the payload, and creates no row.
C4_SecondClockInRejected ==
  [][(Stepped /\ last'.op = "clockIn" /\ ActiveRows(attendance, last'.user) # {})
       => (last'.result = "AlreadyClockedIn" /\ attendance' = attendance)]_vars

\* C5 as claimed: a ClockIn or ClockOut rejected by a validation step leaves the
\* attendance table and the activities log as they were.
C5_RejectionWritesNothing ==
  [][(Stepped /\ last'.op \in {"clockIn", "clockOut"}
        /\ last'.result \in ValidationRejections)
       => (attendance' = attendance /\ activities' = activities)]_vars

\* C5 as amended: a ClockIn or ClockOut rejected by a validation step leaves the
\* attendance table as it was, and leaves the activities log as it was except
\* that a rejection by the spoofing checks may append one suspicious_location
\* entry for the caller (the impossible-speed finding).
C5_RejectionWritesOnlySuspiciousLog ==
  [][(Stepped /\ last'.op \in {"clockIn", "clockOut"}
        /\ last'.result \in ValidationRejections)
       => /\ attendance' = attendance
          /\ \/ activities' = activities
             \/ /\ last'.result = "SpoofingRejected"
                /\ activities' = Append(activities,
                                        [user |-> last'.user,
                                         action |-> "suspicious_location"])]_vars

\* a call was rejected for impossible speed and its log entry is the newest one
C5_Witness ==
  /\ last.op \in {"clockIn", "clockOut"} /\ last.result = "SpoofingRejected"
  /\ last.logged
  /\ Len(activities) > 0
  /\ activities[Len(activities)] = [user |-> last.user, action |-> "suspicious_location"]

\* C6: validateGeofence answers isWithinGeofence = TRUE exactly when the distance
\* is at most the radius (100 m when unset), on the PostGIS path and on the
\* haversine path.
C6_WithinIffDistanceAtMostRadius ==
  geo.phase = "done" =>
    (geo.within <=>
       geo.dist <= 10 * (IF geo.radius = NullNum THEN DefaultRadius ELSE geo.radius))

C8_ValidationStatus ==
  last.op = "clockIn" =>
    /\ (last.result = "ok" /\ last.online) =>
         attendance[last.id].validation_status
           = (IF last.warned THEN "flagged" ELSE "verified")
    /\ (last.result = "ok" /\ ~last.online) =>
         attendance[last.id].validation_status = "unverified"
    /\ ~last.online => (last.result \notin ValidationRejections /\ ~last.logged)

\* an online clock-in succeeded with a warning
C8_Witness ==
  /\ last.op = "clockIn" /\ last.result = "ok" /\ last.online /\ last.warned
  /\ attendance[last.id].validation_status = "flagged"

\* C9: once a row is completed, no later ClockIn, ClockOut or SyncBatch makes it
\* active again.
C9_CompletedStaysCompleted ==
  [][\A i \in 1..Len(attendance) :
       attendance[i].status = "completed" => attendance'[i].status # "active"]_vars

\* C10: in sync pre-validation the only records refused are those without
\* device_id or client_timestamp or with a client_timestamp in the future; a
\* record more than 30 days old is valid and processed.
C10_OldRecordOnlyWarns ==
  last.op = "sync" => last.sync.invalid = last.sync.hard

\* C11: a sync record that conflicts with the row stored under its key, and whose
\* strategy is server_wins, absent, unrecognized or manual, leaves the
\* attendance table as it was, whatever its sync_version.
C11_ServerWinsKeepsStoredRow ==
  [][\A u \in Users, rec \in ConflictRecords :
       (/\ rec.conflict_resolution_strategy # "client_wins"
        /\ \E e \in Matching(attendance, rec) : detectConflict(rec, e)
        /\ SyncBatch(u, <<rec>>))
       => attendance' = attendance]_vars

\* C12: a sync record with strategy client_wins that carries a sync_version other
\* than that of the one row stored under its key leaves that row, under the same
\* id, with sync_version = max of the two + 1 and synced = TRUE.
C12_ClientWinsBumpsVersion ==
  [][\A u \in Users, rec \in ConflictRecords : \A e \in Matching(attendance, rec) :
       (/\ rec.conflict_resolution_strategy = "client_wins"
        /\ Matching(attendance, rec) = {e}
        /\ Truthy(rec.sync_version) /\ rec.sync_version # e.sync_version
        /\ SyncBatch(u, <<rec>>))
       => LET cv == IF Truthy(rec.sync_version) THEN rec.sync_version ELSE 1
              stored == attendance'[e.id]
          IN /\ stored.id = e.id
             /\ stored.synced = TRUE
             /\ stored.sync_version
                  = (IF cv > e.sync_version THEN cv ELSE e.sync_version) + 1]_vars

\* a sync record the INSERT of bulkSync would accept for the given user
Storable(userId, record) ==
  ~RowViolates(SyncInsertRow(1, [user_id |-> userId] @@ record))

\* C13: a sync batch in which exactly one record lacks device_id, and every other
\* record has device_id, a client_timestamp that is not in the future, and is
\* storable, reports exactly one validation error and no failed record, and is
\* not refused as a whole when it has other records.
C13_OneMalformedOneValidationError ==
  [][\A u \in Users, idx \in BatchIndexes :
       LET recs == Pick(SyncRecords(now), idx)
           malformed == {i \in 1..Len(recs) : recs[i].device_id = Null}
       IN (/\ Cardinality(malformed) = 1
           /\ \A i \in (1..Len(recs)) \ malformed :
                /\ recs[i].client_timestamp # NullNum
                /\ recs[i].client_timestamp <= now
                /\ Storable(u, recs[i])
           /\ SyncBatch(u, recs))
          => /\ last'.sync.invalid = 1
             /\ last'.sync.failed = 0
             /\ Len(recs) > 1 => last'.result = "ok"]_vars

\* C14: after a sync batch, every record of it that passed validation and is
\* storable has a row under its (device_id, client_timestamp) key, whatever
\* happened to the other records of the batch.
C14_RecordsCommitIndependently ==
  [][\A u \in Users, idx \in BatchIndexes :
       LET recs == Pick(SyncRecords(now), idx)
       IN SyncBatch(u, recs)
          => \A i \in 1..Len(recs) :
               (validateSyncMetadata(recs[i], now).isValid /\ Storable(u, recs[i]))
               => Matching(attendance', recs[i]) # {}]_vars

\* C15: no submission of a sync record, repeated after or during the first one,
\* leaves a second row equal to the first in everything but its id.
C15_RetryAddsNoSecondRow ==
  \A r1, r2 \in RowsOf(attendance) :
    [r1 EXCEPT !.id = 0] = [r2 EXCEPT !.id = 0] => r1.id = r2.id

ActiveSessions(table, userId) ==
  {r \in RowsOf(table) : r.user_id = userId /\ r.is_active}

SessionsOf(table, token) == {r \in RowsOf(table) : r.token_hash = hashToken(token)}

\* C16: under Login, Logout and Cleanup calls run one at a time, every reachable
\* state has at most one user_sessions row with is_active = TRUE per user.
C16_AtMostOneActiveSession ==
  \A u \in Users : Cardinality(ActiveSessions(sessions, u)) <= 1

\* a user has logged in twice: the first session is invalidated for new_login
\* and the second one is active
C16_Witness ==
  \E u \in Users :
    /\ Cardinality(ActiveSessions(sessions, u)) = 1
    /\ \E r \in RowsOf(sessions) :
         r.user_id = u /\ ~r.is_active /\ r.invalidation_reason = "new_login"

\* C17: under any interleaving of concurrent logins and of the expiry sweep, no
\* two distinct user_sessions rows of one user are active together.
C17_ConcurrentLoginSingleSession ==
  \A r1, r2 \in RowsOf(sessions) :
    (r1.user_id = r2.user_id /\ r1.is_active /\ r2.is_active) => r1.id = r2.id

\* C18: once a user has logged in twice, a request bearing the unexpired token
\* of the earlier login is answered SessionInvalidated, and a request bearing
\* the unexpired token of the latest login of an active user is accepted.
C18_FirstTokenRejected ==
  [][\A token \in Tokens :
       (Validate(token) /\ ~jwtExpired(token, now))
       => \A r1, r2 \in RowsOf(sessions) :
            (/\ r1.user_id = token.user /\ r2.user_id = token.user
             /\ r1.id < r2.id
             /\ \A r \in RowsOf(sessions) : r.user_id = token.user => r.id <= r2.id)
            => /\ r1.token_hash = hashToken(token)
                    => auth'.result = "SessionInvalidated"
               /\ (r2.token_hash = hashToken(token) /\ userActive[token.user]
                     /\ r2.is_active)
                    => auth'.result = "ok"]_vars

C20_LogoutInvalidatesSession ==
  [][\A token \in Tokens :
       (Logout(token) /\ auth'.result = "ok")
       => /\ findActiveSessionByToken(sessions', token, now') = {}
          /\ \E r \in SessionsOf(sessions', token) : r.invalidation_reason = "logout"]_vars


\* C21: within the window that starts at an identifier's first counted request,
\* the auth rate limiter lets at most maxAttempts counted requests through
C21_AtMostMaxAttemptsPerWindow ==
  \A i \in Identifiers :
    LET passed == served[i].passed
    IN passed # <<>> =>
         Cardinality({k \in DOMAIN passed : passed[k] < passed[1] + windowMs}) <= maxAttempts


\* C22: against a last location of (0,0) at t0, a new point whose implied
\* speed exceeds MAX_SPEED_KMH fails the check with flag impossible_speed, and
\* the same points with a delay implying at most MAX_SPEED_KMH are not flagged
C22_SpeedFlaggedFromOrigin ==
  LET l == probe.locationData
      r == probe.lastAttendance
      distDm == haversineDistance(0, 0, l.latitude, l.longitude)
      over == distDm * 36 > MAX_SPEED_KMH * 100 * probe.delay
  IN (/\ probe.phase = "done"
      /\ r # NoRow /\ r.clock_in_latitude = 0 /\ r.clock_in_longitude = 0
      /\ Truthy(l.latitude) /\ Truthy(l.longitude)
      /\ probe.delay > 0)
     => /\ over => ~probe.result.passed /\ "impossible_speed" \in probe.result.flags
        /\ ~over => "impossible_speed" \notin probe.result.flags


\* C23: runSpoofingChecks answers passed = false exactly when the point is
\* mocked, its accuracy is above MAX_ACCEPTABLE_ACCURACY, or the speed check
\* against the last located attendance made a finding; an accuracy of exactly
\* MAX_ACCEPTABLE_ACCURACY passes, an accuracy below MIN_SUSPICIOUS_ACCURACY
\* only adds the suspicious_accuracy warning, and without a last located
\* attendance there is no speed finding
C23_PassedIffNoHardFailure ==
  LET l == probe.locationData
      r == probe.lastAttendance
      res == probe.result
      tooCoarse == l.accuracy # NullNum /\ l.accuracy > MAX_ACCEPTABLE_ACCURACY * 10
      tooFine == l.accuracy # NullNum /\ l.accuracy < MIN_SUSPICIOUS_ACCURACY * 10
      finding == /\ r # NoRow
                 /\ detectImpossibleSpeed(
                      [latitude |-> r.clock_in_latitude, longitude |-> r.clock_in_longitude,
                       timestamp |-> r.clock_in_time],
                      [latitude |-> l.latitude, longitude |-> l.longitude,
                       timestamp |-> Place.t0 + probe.delay])
  IN probe.phase = "done" =>
       /\ res.passed = ~(l.is_mocked = TRUE \/ tooCoarse \/ finding)
       /\ ("mock_location" \in res.flags) = (l.is_mocked = TRUE)
       /\ ("low_accuracy" \in res.flags) = tooCoarse
       /\ ("suspicious_accuracy" \in res.flags) = tooFine
       /\ res.warnings = tooFine
       /\ ("impossible_speed" \in res.flags) = finding
       /\ r = NoRow => "impossible_speed" \notin res.flags

\* a reading of exactly MAX_ACCEPTABLE_ACCURACY, not mocked, a plausible walk
\* from the last located attendance: passed
C23_Witness ==
  /\ probe.phase = "done"
  /\ probe.locationData.accuracy = MAX_ACCEPTABLE_ACCURACY * 10
  /\ probe.locationData.is_mocked = FALSE
  /\ probe.lastAttendance # NoRow
  /\ probe.lastAttendance.clock_in_latitude = LatF1
  /\ probe.locationData.latitude = LatLow
  /\ probe.locationData.longitude = Meridian
  /\ probe.lastAttendance.clock_in_longitude = Meridian
  /\ probe.delay = Place.pause
  /\ probe.result.passed
  /\ probe.result.flags = {}


\* C24: an online ClockOut that succeeds with a warning attaches the warning to
\* the row's metadata and leaves the row with validation_status flagged
C24_ClockOutWarningFlags ==
  (last.op = "clockOut" /\ last.result = "ok" /\ last.online /\ last.warned) =>
    /\ attendance[last.id].metadata
         \cap {"clock_out_coordinate_warning", "clock_out_spoofing_warnings"} # {}
    /\ attendance[last.id].validation_status = "flagged"


\* C27: a row that ClockOut completes, with the server's time or with a
\* clock_out_time of the caller, has clock_out_time later than clock_in_time;
\* a ClockOut whose clock_out_time is not later than clock_in_time is refused
\* and leaves the row active
C27_ClockOutAfterClockIn ==
  [][\A u \in Users, d \in TimedClockOutPayloads :
       \A a \in findActiveByUserId(attendance, u) :
         ClockOut(u, d) =>
           /\ last'.result = "ok" =>
                /\ attendance'[a.id].status = "completed"
                /\ attendance'[a.id].clock_out_time > attendance'[a.id].clock_in_time
           /\ (Truthy(d.clock_out_time) /\ d.clock_out_time <= a.clock_in_time) =>
                /\ last'.result # "ok"
                /\ attendance'[a.id] = a
                /\ a.status = "active"]_vars

\* a clock-out completed a row with a clock_out_time of the caller, later than
\* the server's time
C27_Witness ==
  /\ last.op = "clockOut" /\ last.result = "ok"
  /\ attendance[last.id].status = "completed"
  /\ attendance[last.id].clock_out_time = Place.t0 + Place.pause
  /\ attendance[last.id].clock_out_time > attendance[last.id].clock_in_time


\* C28: a SyncBatch of user U changes no attendance row whose user_id is not U
C28_SyncLeavesOtherUsersRows ==
  [][(last'.op = "sync" /\ nops' # nops) =>
       \A i \in 1..Len(attendance) :
         attendance[i].user_id # last'.user => attendance'[i] = attendance[i]]_vars


\* C25: resolveConflict answers insert without conflict when no server record
\* matches; no_change without conflict when sync_version, status and both
\* timestamps agree, timestamps at most a second apart counting as agreeing;
\* and a conflict in every other case, also when a timestamp is null on one
\* side only
C25_ResolveClassification ==
  [][\A c \in ClientRecords, strategy \in {Null, "client_wins", "server_wins", "manual"} :
       Resolve(c, strategy) =>
         LET s == probe.server
             res == probe'.result
             Agree(a, b) == \/ a = NullNum /\ b = NullNum
                            \/ a # NullNum /\ b # NullNum /\ Abs(a - b) <= 1
             same == /\ c.sync_version = s.sync_version
                     /\ c.status = s.status
                     /\ Agree(c.clock_in_time, s.clock_in_time)
                     /\ Agree(c.clock_out_time, s.clock_out_time)
         IN IF s = NoRow
              THEN res.action = "insert" /\ ~res.conflict /\ res.resolved = c
            ELSE IF same
              THEN res.action = "no_change" /\ ~res.conflict /\ res.resolved = s
            ELSE res.conflict /\ res.action # "insert"]_vars

\* a record submitted against the outcome of a merge was answered no_change
C25_Witness ==
  /\ probe.phase = "resolver"
  /\ probe.server # NoRow
  /\ probe.result.action = "no_change" /\ ~probe.result.conflict
  /\ probe.merges > 0

\* C26: every client_wins merge leaves a sync_version above the one stored
\* before it, and the id and created_at of the original server record
C26_MergesRaiseVersion ==
  [][\A c \in ClientRecords :
       (Resolve(c, "client_wins") /\ probe'.result.action = "update") =>
         /\ probe'.server.sync_version > probe.server.sync_version
         /\ probe'.server.id = probe.original.id
         /\ probe'.server.created_at = probe.original.created_at
         /\ probe'.server.synced]_vars

\* MaxMerges merges in a row, the record still the original server record's
C26_Witness ==
  /\ probe.phase = "resolver"
  /\ probe.merges = MaxMerges
  /\ probe.server.sync_version > probe.original.sync_version + 2
  /\ probe.server.id = probe.original.id


\* C29: authenticate lets a request through only if the token has an active,
\* unexpired session, also when the session query fails
C29_NoSessionNoAccess ==
  [][\A token \in Tokens :
       ((Validate(token) \/ ValidateSessionError(token)) /\ auth'.result = "ok")
       => findActiveSessionByToken(sessions, token, now) # {}]_vars

\* C30: the token a Refresh has just handed to an active user is accepted by
\* authenticate as long as it has not expired
C30_RefreshedTokenAccepted ==
  [][\A token \in Tokens :
       (/\ auth.op = "refresh" /\ auth.result = "ok" /\ auth.token = token
        /\ userActive[token.user] /\ ~jwtExpired(token, now)
        /\ Validate(token))
       => auth'.result = "ok"]_vars

====
